---- MODULE Spec2Model ----
(***************************************************************************)
(* Step-up MFA assurance engine of the finance app: the two privileged     *)
(* endpoints (disable-mfa, change-password), the profile trigger that      *)
(* guards the cooling period, the client enrolment calls, the route guard  *)
(* and requireAuth.  One account; time is counted in minutes.              *)
(***************************************************************************)
EXTENDS Integers, Sequences, FiniteSets, TLC

\* ------------------------------------------------------------------ bounds
MaxSessions == 1        \* sessions the identity provider issues to browsers
MaxFactorId == 2        \* factor ids ever handed out
MaxAudit    == 1        \* audit records the log holds; a request that would add more is not made
MaxTime     == 1500     \* last instant observed (minutes)
MaxRows     == 2        \* rows the record tables hold

\* ------------------------------------------------------- program constants
MinutesPerHour == 60    \* the divisor (1000 * 60 * 60) ms of an hour, in minutes
COOLING_HOURS  == 24
TRIGGER_COOLING_SECONDS == 86400
SecondsPerHour == 3600  \* the divisor of the trigger's message

NULL == -1              \* SQL NULL / JS null for last_mfa_change

\* 23 hours after the start; MaxTime is 25 hours after it
AlmostADay == 23 * MinutesPerHour

Instants == {0, 10, AlmostADay, MaxTime}

Passwords   == {"pw1", "pw2"}
FactorTypes == {"webauthn", "totp", "phone", "email"}
OtherTypes  == {"webauthn"}            \* types enrolled through the provider API, not by enrollMFA
Sids        == 1 .. MaxSessions
Fids        == 1 .. MaxFactorId
RowIds      == 1 .. MaxRows

VARIABLES
  password,     \* the account's password credential at the identity provider
  factors,      \* factor id -> [status, factor_type] at the identity provider
  profile,      \* the account's profiles row: mfa_factors_count, last_mfa_change
  sessions,     \* session id -> [state, aal] at the identity provider
  audit,        \* security_audit_log, oldest first
  now,          \* current time in minutes
  stale,        \* session ids issued before a successful credential/factor change
  rows,         \* row id -> [table, owner, val] of expenses, income and profiles
  last          \* the operation just performed: its inputs and its outcome

vars == <<password, factors, profile, sessions, audit, now, stale, rows, last>>

server == <<password, factors, profile, audit>>

\* ----------------------------------------------------------------- tokens
\* What an endpoint can read from the x-user-token header.
NoTok        == [kind |-> "none",      email |-> FALSE, sub |-> FALSE, aal |-> "undef", sid |-> 0]
MalformedTok == [kind |-> "malformed", email |-> FALSE, sub |-> FALSE, aal |-> "undef", sid |-> 0]
GarbageTok   == [kind |-> "garbage",   email |-> FALSE, sub |-> FALSE, aal |-> "undef", sid |-> 0]

Jwt(e, s, a, i) == [kind |-> "jwt", email |-> e, sub |-> s, aal |-> a, sid |-> i]

Tokens ==
  {NoTok, MalformedTok, GarbageTok}
    \cup {Jwt(TRUE, TRUE, a, i) : a \in {"aal1", "aal2"}, i \in 0 .. MaxSessions}
    \cup {Jwt(TRUE, TRUE, "undef", 0)}
    \cup {Jwt(FALSE, TRUE, a, 0) : a \in {"aal1", "aal2"}}
    \cup {Jwt(TRUE, FALSE, a, 0) : a \in {"aal1", "aal2"}}

\* The token is one the identity provider issued for session tok.sid.
Issued(tok, ss) ==
  /\ tok.kind = "jwt" /\ tok.email /\ tok.sub
  /\ tok.sid \in Sids
  /\ ss[tok.sid].state # "unused"
  /\ \/ tok.aal = "aal1"
     \/ tok.aal = "aal2" /\ ss[tok.sid].aal = "aal2"

\* --------------------------------------------------------------- factors
NoFactor == [status |-> "absent", factor_type |-> "none"]
Gone(f)  == [status |-> "removed", factor_type |-> f.factor_type]

Verified(fs)     == {i \in Fids : fs[i].status = "verified"}
VerifiedTotp(fs) == {i \in Verified(fs) : fs[i].factor_type = "totp"}
FreeFids(fs)     == {i \in Fids : fs[i].status = "absent"}

Min(S) == CHOOSE x \in S : \A y \in S : x <= y

\* ------------------------------------------------------------------- rows
NoRow == [table |-> "none", owner |-> 0, val |-> 0]

\* ---------------------------------------------------------------- sessions
NoSession == [state |-> "unused", aal |-> "undef"]
\* A new session takes an unused id, or the id of a revoked session, whose old
\* tokens are then no longer followed.
FreeSids(ss) == {i \in Sids : ss[i].state \in {"unused", "revoked"}}
Live(ss)     == {i \in Sids : ss[i].state = "live"}

RevokeAll(ss) == [i \in Sids |-> IF ss[i].state = "live" THEN [ss[i] EXCEPT !.state = "revoked"] ELSE ss[i]]

\* ------------------------------------------------- the browser's session
\* What getSession() hands to the client code: the convenience field session.aal,
\* the access token (how its payload is encoded and the aal claim inside) and
\* session.user.amr.
NoCS == [present |-> FALSE, aal |-> "undef", enc |-> "none", claim |-> "undef",
         hasAmr |-> FALSE, amr |-> <<>>]

\* session.user.amr: a reset link alone (the provider names the method otp or
\* recovery), a password, a password and then a code, a reset link and then a code
AmrLists == {<<"otp">>, <<"password">>, <<"password", "totp">>, <<"recovery">>, <<"otp", "totp">>}

\* access tokens: none, not a JWT, or a JWT whose payload is plain base64 ("std")
\* or uses the base64url characters - and _ ("url"), with its aal claim
ClientTokens ==
  {[enc |-> "none", claim |-> "undef"], [enc |-> "bad", claim |-> "undef"]}
    \cup [enc : {"std", "url"}, claim : {"undef", "aal1", "aal2"}]

Amrs == {[hasAmr |-> FALSE, amr |-> <<>>]} \cup [hasAmr : {TRUE}, amr : AmrLists]

ClientSessions ==
  {NoCS} \cup
  {[present |-> TRUE, aal |-> a, enc |-> t.enc, claim |-> t.claim, hasAmr |-> m.hasAmr,
    amr |-> m.amr] : a \in {"undef", "aal1", "aal2"}, t \in ClientTokens, m \in Amrs}

\* ------------------------------------------------------------ last record
Idle == [op |-> "init", tok |-> NoTok, fault |-> "none", status |-> 0, reason |-> "",
         flags |-> {}, hours |-> 0, calls |-> <<>>, vf |-> 0, cs |-> NoCS, dest |-> "",
         pw |-> "", code |-> "", newpw |-> "", table |-> "", cmd |-> "",
         uid |-> 0, row |-> 0, resp |-> ""]

Init ==
  /\ password = "pw1"
  /\ factors = [i \in Fids |-> NoFactor]
  /\ profile = [mfa_factors_count |-> 0, last_mfa_change |-> NULL]
  /\ sessions = [i \in Sids |-> NoSession]
  /\ audit = <<>>
  /\ now = 0
  /\ stale = {}
  /\ rows = [i \in RowIds |-> NoRow]
  /\ last = Idle

\* ------------------------------------------------- endpoint request frames
\* At most one call of a request fails for a reason of its own (outage, timeout).
DisableFaults == {"listFactors", "challenge", "profileLookup", "profileUpdate",
                  "unenroll", "signOut", "audit"}
ChangeFaults  == {"listFactors", "updateUser", "signOut", "audit"}

BadTokens  == {t \in Tokens : t.kind # "jwt" \/ ~t.email \/ ~t.sub}
GoodTokens == Tokens \ BadTokens

\* The handler's running state: the response once produced (done), the calls
\* made so far and the provider/datastore state as left by those calls.
Start ==
  [done |-> FALSE, status |-> 0, reason |-> "", flags |-> {}, hours |-> 0, calls |-> <<>>,
   password |-> password, factors |-> factors, profile |-> profile,
   sessions |-> sessions, audit |-> audit,
   factors0 |-> factors, vf |-> 0, isLast |-> FALSE, n |-> 0, hasMFA |-> FALSE,
   pw |-> "", code |-> "", newpw |-> ""]

Respond(o, status, reason, flags) ==
  [o EXCEPT !.done = TRUE, !.status = status, !.reason = reason, !.flags = flags]

Call(o, c) == [o EXCEPT !.calls = Append(@, c)]

\* catch (error) { ... status: 500 }
Throw(o) == Respond(o, 500, "internal", {})

\* ------------------------------------------------------------ disable-mfa
FACTOR_STRENGTH(t) ==
  CASE t = "webauthn" -> 4
    [] t = "totp"     -> 3
    [] t = "phone"    -> 2
    [] t = "email"    -> 1
    [] OTHER          -> 0

\* mfaData.totp: the account's TOTP factors, in enrolment order
TotpList(fs) == {i \in Fids : fs[i].factor_type = "totp" /\ fs[i].status \in {"unverified", "verified"}}

\* activeMfaFactors = mfaData?.totp?.filter(f => f.status === 'verified') || []
activeMfaFactors(fs) == {i \in TotpList(fs) : fs[i].status = "verified"}

\* mutant: a factor of equal strength blocks as well
hasStrongerFactors_orEqual(fs, vf) ==
  \E f \in activeMfaFactors(fs) :
    f # vf /\ FACTOR_STRENGTH(fs[f].factor_type) >= FACTOR_STRENGTH(fs[vf].factor_type)

\* mutant: the comparison turned round, weaker factors block stronger ones
hasStrongerFactors_reversed(fs, vf) ==
  \E f \in activeMfaFactors(fs) :
    f # vf /\ FACTOR_STRENGTH(fs[f].factor_type) < FACTOR_STRENGTH(fs[vf].factor_type)

\* activeMfaFactors.some(f => f.id !== factorToDisable.id && strength(f) > strength(factorToDisable))
hasStrongerFactors(fs, vf) ==
  \E f \in activeMfaFactors(fs) :
    f # vf /\ FACTOR_STRENGTH(fs[f].factor_type) > FACTOR_STRENGTH(fs[vf].factor_type)

\* hoursSinceChange < 24, with both times in minutes
WithinCooling(lmc, t) == (t - lmc) < COOLING_HOURS * MinutesPerHour

\* Math.ceil(24 - hoursSinceChange)
CeilDiv(a, b) == (a + b - 1) \div b
HoursRemaining(lmc, t) == CeilDiv(COOLING_HOURS * MinutesPerHour - (t - lmc), MinutesPerHour)

\* profile?.last_mfa_change && profile.mfa_factors_count > 0 && hoursSinceChange < 24
CoolingBlocks(p, t) ==
  /\ p.last_mfa_change # NULL
  /\ p.mfa_factors_count > 0
  /\ WithinCooling(p.last_mfa_change, t)

\* mutant: the trigger still raises at exactly 86400 seconds
TriggerRaises_inclusive(old, new, t) ==
  /\ old.mfa_factors_count > 0 /\ new.mfa_factors_count = 0
  /\ old.last_mfa_change # NULL
  /\ (t - old.last_mfa_change) * 60 <= TRIGGER_COOLING_SECONDS

\* BEFORE UPDATE trigger check_mfa_cooling_period on profiles
TriggerRaises(old, new, t) ==
  /\ old.mfa_factors_count > 0 /\ new.mfa_factors_count = 0
  /\ old.last_mfa_change # NULL
  /\ (t - old.last_mfa_change) * 60 < TRIGGER_COOLING_SECONDS

\* CEIL((86400 - EXTRACT(EPOCH FROM (NOW() - OLD.last_mfa_change))) / 3600)
TriggerHours(old, t) ==
  CeilDiv(TRIGGER_COOLING_SECONDS - (t - old.last_mfa_change) * 60, SecondsPerHour)

TriggerRow(old, new, t) ==
  IF old.mfa_factors_count # new.mfa_factors_count
    THEN [new EXCEPT !.last_mfa_change = t]
    ELSE new

\* lines 18-66: read and decode the x-user-token header
D_Token(o, r) ==
  IF o.done THEN o
  ELSE IF r.tok.kind = "none" THEN Throw(o)
  ELSE IF r.tok.kind = "malformed" THEN Respond(o, 401, "bad_token", {})
  ELSE IF r.tok.kind = "garbage" THEN Throw(o)
  ELSE IF ~r.tok.email \/ ~r.tok.sub THEN Respond(o, 401, "bad_token", {})
  ELSE o

\* mutant: the gate turns away only a token that says aal1
D_AAL_onlyAal1(o, r) ==
  IF o.done THEN o
  ELSE IF r.tok.aal = "aal1" THEN Respond(o, 403, "insufficient_aal", {"requiresAAL2"})
  ELSE o

\* lines 68-79: if (sessionAAL !== 'aal2') return 403 requiresAAL2
D_AAL(o, r) ==
  IF o.done THEN o
  ELSE IF r.tok.aal # "aal2" THEN Respond(o, 403, "insufficient_aal", {"requiresAAL2"})
  ELSE o

\* lines 95-102: request body
D_Body(o, r) ==
  IF o.done THEN o
  ELSE LET o1 == [o EXCEPT !.pw = r.password, !.code = r.mfaCode] IN
       IF r.password = "" \/ r.mfaCode = "" THEN Respond(o1, 400, "missing_field", {})
       ELSE o1

\* lines 104-115: STEP 1 signInWithPassword
D_Password(o, r) ==
  IF o.done THEN o
  ELSE IF r.password # o.password
    THEN Respond(Call(o, "signInWithPassword"), 401, "wrong_password", {})
  ELSE Call(o, "signInWithPassword")

\* lines 117-132: STEP 2 listFactors, first verified TOTP factor
D_Factors(o, r) ==
  IF o.done THEN o
  ELSE IF r.fault = "listFactors" THEN Throw(Call(o, "listFactors"))
  ELSE IF activeMfaFactors(o.factors) = {}
    THEN Respond(Call(o, "listFactors"), 404, "not_found", {})
  ELSE [Call(o, "listFactors") EXCEPT !.vf = Min(activeMfaFactors(o.factors))]

\* mutant: the verify error is logged and the handler carries on
D_Verify_anyCode(o, r) ==
  IF o.done THEN o
  ELSE IF r.fault = "challenge" THEN Throw(Call(o, "challenge"))
  ELSE Call(Call(o, "challenge"), "verify")

\* lines 134-154: STEP 4 challenge and verify the code against that factor
D_Verify(o, r) ==
  IF o.done THEN o
  ELSE IF r.fault = "challenge" THEN Throw(Call(o, "challenge"))
  ELSE IF r.mfaCode # "good"
    THEN Respond(Call(Call(o, "challenge"), "verify"), 401, "wrong_code", {})
  ELSE Call(Call(o, "challenge"), "verify")

\* lines 156-188: STEP 5 factor hierarchy
D_Hierarchy(o, r) ==
  IF o.done THEN o
  ELSE IF hasStrongerFactors(o.factors, o.vf)
    THEN Respond(o, 403, "hierarchy", {"factorHierarchy"})
  ELSE o

\* lines 190-217: STEP 5.5 cooling period for the last factor
D_Cooling(o, r, t) ==
  IF o.done THEN o
  ELSE IF Cardinality(activeMfaFactors(o.factors)) # 1 THEN o
  ELSE LET o1 == [Call(o, "profiles.select") EXCEPT !.isLast = TRUE] IN
       IF r.fault = "profileLookup" THEN o1
       ELSE IF CoolingBlocks(o.profile, t)
         THEN [Respond(o1, 403, "cooling", {"hoursRemaining"})
                 EXCEPT !.hours = HoursRemaining(o.profile.last_mfa_change, t)]
       ELSE o1

\* mutant: a rejection above forgot its return, so the update still runs
D_Update_noReturn(o, r, t) ==
  LET n   == Cardinality(activeMfaFactors(o.factors)) - 1
      new == [mfa_factors_count |-> n, last_mfa_change |-> t]
  IN IF r.fault = "profileUpdate" \/ TriggerRaises(o.profile, new, t)
       THEN o
       ELSE [o EXCEPT !.profile = TriggerRow(o.profile, new, t)]

\* lines 219-232: STEP 6 profile update (errors are logged and ignored)
D_Update(o, r, t) ==
  IF o.done THEN o
  ELSE LET n   == Cardinality(activeMfaFactors(o.factors)) - 1
           new == [mfa_factors_count |-> n, last_mfa_change |-> t]
           o1  == [Call(o, "profiles.update") EXCEPT !.n = n]
       IN IF r.fault = "profileUpdate" \/ TriggerRaises(o.profile, new, t)
            THEN o1
            ELSE [o1 EXCEPT !.profile = TriggerRow(o.profile, new, t)]

\* lines 234-241: STEP 7 unenroll
D_Unenroll(o, r) ==
  IF o.done THEN o
  ELSE IF r.fault = "unenroll" THEN Throw(Call(o, "unenroll"))
  ELSE [Call(o, "unenroll") EXCEPT !.factors[o.vf] = Gone(@)]

\* lines 243-250: STEP 8 admin.signOut(userId), errors are logged and ignored
D_Revoke(o, r) ==
  IF o.done THEN o
  ELSE IF r.fault = "signOut" THEN Call(o, "signOut")
  ELSE [Call(o, "signOut") EXCEPT !.sessions = RevokeAll(o.sessions)]

\* mutant: a failed audit insert is thrown like the unenroll error
D_Audit_throws(o, r) ==
  IF o.done THEN o
  ELSE IF r.fault = "audit" THEN Throw(Call(o, "audit.insert"))
  ELSE [Call(o, "audit.insert") EXCEPT
          !.audit = Append(@, [event_type |-> "mfa_disabled",
                               factor_id |-> o.vf,
                               factor_type |-> o.factors0[o.vf].factor_type,
                               was_last_factor |-> o.isLast,
                               remaining_factors |-> o.n,
                               had_mfa |-> FALSE,
                               session_aal |-> "undef",
                               user_id |-> 1])]

\* lines 252-270: STEP 9 audit insert, errors ignored
D_Audit(o, r) ==
  IF o.done THEN o
  ELSE IF r.fault = "audit" THEN Call(o, "audit.insert")
  ELSE [Call(o, "audit.insert") EXCEPT
          !.audit = Append(@, [event_type |-> "mfa_disabled",
                               factor_id |-> o.vf,
                               factor_type |-> o.factors0[o.vf].factor_type,
                               was_last_factor |-> o.isLast,
                               remaining_factors |-> o.n,
                               had_mfa |-> FALSE,
                               session_aal |-> "undef",
                               user_id |-> 1])]

\* lines 272-281
D_Success(o) ==
  IF o.done THEN o ELSE Respond(o, 200, "ok", {"success", "requiresReauth"})

disable_mfa(r, t) ==
  D_Success(D_Audit(D_Revoke(D_Unenroll(D_Update(D_Cooling(D_Hierarchy(
    D_Verify(D_Factors(D_Password(D_Body(D_AAL(D_Token(Start, r), r), r), r), r), r),
      r), r, t), r, t), r), r), r))

Issuedbefore(ss) == {i \in Sids : ss[i].state # "unused"}

\* The header carries a token the provider issued, or one made up by the caller (sid 0).
Presentable(tok) == tok.sid = 0 \/ Issued(tok, sessions)

Commit(op, r, o) ==
  /\ Len(o.audit) <= MaxAudit
  /\ Presentable(r.tok)
  /\ password' = o.password
  /\ factors' = o.factors
  /\ profile' = o.profile
  /\ sessions' = o.sessions
  /\ audit' = o.audit
  /\ stale' = IF o.status = 200 THEN stale \cup Issuedbefore(sessions) ELSE stale
  /\ last' = [Idle EXCEPT !.op = op, !.tok = r.tok, !.fault = r.fault, !.status = o.status,
                          !.reason = o.reason, !.flags = o.flags, !.hours = o.hours,
                          !.calls = o.calls, !.vf = o.vf, !.pw = o.pw, !.code = o.code,
                          !.newpw = o.newpw]
  /\ UNCHANGED <<now, rows>>

\* Request bodies: every field missing in turn, each password, each kind of code.
DisableBodies ==
  {[password |-> "", mfaCode |-> "good"], [password |-> "pw1", mfaCode |-> ""]}
    \cup [password : Passwords, mfaCode : {"good", "bad"}]

ForgedAal2 == Jwt(TRUE, TRUE, "aal2", 0)

DisableRequests ==
  {[tok |-> t, password |-> "pw1", mfaCode |-> "good", fault |-> "none"] : t \in BadTokens}
    \cup {[tok |-> t, password |-> b.password, mfaCode |-> b.mfaCode, fault |-> "none"] :
            t \in GoodTokens, b \in DisableBodies}
    \cup [tok : {ForgedAal2}, password : Passwords, mfaCode : {"good"}, fault : DisableFaults]

DisableMfa ==
  \E r \in DisableRequests : Commit("disable-mfa", r, disable_mfa(r, now))

\* ------------------------------------------------------------------- time
Tick == \E t \in Instants : t > now /\ now' = t /\ last' = [Idle EXCEPT !.op = "tick"]
          /\ UNCHANGED <<password, factors, profile, sessions, audit, stale, rows>>


\* -------------------------------------------------------- change-password
\* index.ts lines 18-55: read and decode the x-user-token header
C_Token(o, r) ==
  IF o.done THEN o
  ELSE IF r.tok.kind = "none" THEN Throw(o)
  ELSE IF r.tok.kind = "malformed" THEN Respond(o, 401, "bad_token", {})
  ELSE IF r.tok.kind = "garbage" THEN Throw(o)
  ELSE IF ~r.tok.email \/ ~r.tok.sub THEN Respond(o, 401, "bad_token", {})
  ELSE o

\* lines 70-77
C_Body(o, r) ==
  IF o.done THEN o
  ELSE LET o1 == [o EXCEPT !.pw = r.currentPassword, !.newpw = r.newPassword] IN
       IF r.currentPassword = "" \/ r.newPassword = "" THEN Respond(o1, 400, "missing_field", {})
       ELSE o1

\* lines 79-90: STEP 1 signInWithPassword
C_Password(o, r) ==
  IF o.done THEN o
  ELSE IF r.currentPassword # o.password
    THEN Respond(Call(o, "signInWithPassword"), 401, "wrong_password", {})
  ELSE Call(o, "signInWithPassword")

\* mfaData?.totp?.some(f => f.status === 'verified'); undefined when the listing failed
hasMFA(fs, fault) ==
  /\ fault # "listFactors"
  /\ \E f \in TotpList(fs) : fs[f].status = "verified"

\* lines 92-110: STEP 2.5 step-up required when the account has MFA
C_AAL(o, r) ==
  IF o.done THEN o
  ELSE LET o1 == [Call(o, "listFactors") EXCEPT !.hasMFA = hasMFA(o.factors, r.fault)] IN
       IF o1.hasMFA /\ r.tok.aal # "aal2"
         THEN Respond(o1, 403, "insufficient_aal", {"requiresMFA"})
         ELSE o1

\* lines 112-120: STEP 3 updateUserById
C_Update(o, r) ==
  IF o.done THEN o
  ELSE IF r.fault = "updateUser" THEN Throw(Call(o, "updateUserById"))
  ELSE [Call(o, "updateUserById") EXCEPT !.password = r.newPassword]

\* lines 122-129: STEP 4 admin.signOut(userId), errors are logged and ignored
C_Revoke(o, r) ==
  IF o.done THEN o
  ELSE IF r.fault = "signOut" THEN Call(o, "signOut")
  ELSE [Call(o, "signOut") EXCEPT !.sessions = RevokeAll(o.sessions)]

\* lines 131-147: STEP 5 audit insert, errors ignored
C_Audit(o, r) ==
  IF o.done THEN o
  ELSE IF r.fault = "audit" THEN Call(o, "audit.insert")
  ELSE [Call(o, "audit.insert") EXCEPT
          !.audit = Append(@, [event_type |-> "password_changed",
                               factor_id |-> 0,
                               factor_type |-> "none",
                               was_last_factor |-> FALSE,
                               remaining_factors |-> 0,
                               had_mfa |-> o.hasMFA,
                               session_aal |-> r.tok.aal,
                               user_id |-> 1])]

\* lines 149-158
C_Success(o) ==
  IF o.done THEN o ELSE Respond(o, 200, "ok", {"success", "requiresReauth"})

change_password(r) ==
  C_Success(C_Audit(C_Revoke(C_Update(C_AAL(C_Password(C_Body(C_Token(Start, r), r), r), r), r), r), r))

ChangeBodies ==
  {[currentPassword |-> "", newPassword |-> "pw2"], [currentPassword |-> "pw1", newPassword |-> ""]}
    \cup [currentPassword : Passwords, newPassword : Passwords]

ChangeRequests ==
  {[tok |-> t, currentPassword |-> "pw1", newPassword |-> "pw2", fault |-> "none"] : t \in BadTokens}
    \cup {[tok |-> t, currentPassword |-> b.currentPassword, newPassword |-> b.newPassword,
           fault |-> "none"] : t \in GoodTokens, b \in ChangeBodies}
    \cup [tok : {ForgedAal2, Jwt(TRUE, TRUE, "aal1", 0)}, currentPassword : Passwords,
          newPassword : {"pw2"}, fault : ChangeFaults]

ChangePassword ==
  \E r \in ChangeRequests : Commit("change-password", r, change_password(r))

\* ------------------------------------------- client calls to the provider
Did(op) == [Idle EXCEPT !.op = op]

\* auth.js signIn: signInWithPassword creates an aal1 session
signIn ==
  \E pw \in Passwords, s \in Sids :
    /\ s = Min(FreeSids(sessions) \cup {MaxSessions + 1})
    /\ pw = password
    /\ sessions' = [sessions EXCEPT ![s] = [state |-> "live", aal |-> "aal1"]]
    /\ stale' = stale \ {s}
    /\ last' = Did("signIn")
    /\ UNCHANGED <<password, factors, profile, audit, now, rows>>

\* auth.js enrollMFA: mfa.enroll({factorType: 'totp'}) adds an unverified factor
enrollMFA ==
  \E f \in Fids :
    /\ Live(sessions) # {}
    /\ f = Min(FreeFids(factors) \cup {MaxFactorId + 1})
    /\ factors' = [factors EXCEPT ![f] = [status |-> "unverified", factor_type |-> "totp"]]
    /\ last' = Did("enrollMFA")
    /\ UNCHANGED <<password, profile, sessions, audit, now, stale, rows>>

\* The provider's enroll API used for a factor type the app's own form never offers
\* (FACTOR_STRENGTH ranks them); the factor is taken as verified at once
EnrollOther ==
  \E f \in Fids, t \in OtherTypes :
    /\ Live(sessions) # {}
    /\ f = Min(FreeFids(factors) \cup {MaxFactorId + 1})
    /\ factors' = [factors EXCEPT ![f] = [status |-> "verified", factor_type |-> t]]
    /\ last' = Did("EnrollOther")
    /\ UNCHANGED <<password, profile, sessions, audit, now, stale, rows>>

\* auth.js verifyMFAEnrollment: challenge + verify promotes the factor and upgrades the session
verifyMFAEnrollment ==
  \E s \in Live(sessions), f \in Fids :
    /\ factors[f].status = "unverified"
    /\ factors' = [factors EXCEPT ![f].status = "verified"]
    /\ sessions' = [sessions EXCEPT ![s].aal = "aal2"]
    /\ last' = Did("verifyMFAEnrollment")
    /\ UNCHANGED <<password, profile, audit, now, stale, rows>>

\* auth.js verifyMFA: step-up of an aal1 session against a verified factor
verifyMFA ==
  \E s \in Live(sessions), f \in Verified(factors) :
    /\ sessions[s].aal = "aal1"
    /\ sessions' = [sessions EXCEPT ![s].aal = "aal2"]
    /\ last' = Did("verifyMFA")
    /\ UNCHANGED <<password, factors, profile, audit, now, stale, rows>>

\* disable-mfa with the account's enrolment history and the passing of time
Next ==
  \/ DisableMfa
  \/ signIn
  \/ enrollMFA
  \/ EnrollOther
  \/ verifyMFAEnrollment
  \/ verifyMFA
  \/ Tick

Spec == Init /\ [][Next]_vars

\* change-password alone
NextPw ==
  \/ ChangePassword
  \/ signIn
  \/ enrollMFA
  \/ EnrollOther
  \/ verifyMFAEnrollment
  \/ verifyMFA

SpecPw == Init /\ [][NextPw]_vars

\* both endpoints on one account
NextEndpoints ==
  \/ DisableMfa
  \/ ChangePassword
  \/ signIn
  \/ enrollMFA
  \/ verifyMFAEnrollment
  \/ verifyMFA

SpecEndpoints == Init /\ [][NextEndpoints]_vars

\* ------------------------------------------------------------ route guard
\* guard.js decodeJWT: base64url -> base64, atob, JSON.parse; null on any failure
decodeJWT(cs) == IF cs.enc \in {"std", "url"} THEN cs.claim ELSE "null"

\* guard.js Step 3.5: session.aal, or the token's aal claim when the field is missing
GuardAAL(cs) ==
  IF cs.aal = "undef" /\ cs.enc # "none"
    THEN (IF decodeJWT(cs) \in {"aal1", "aal2"} THEN decodeJWT(cs) ELSE "undef")
    ELSE cs.aal

\* mutant: the recovery method looked for under the wrong name
hasOnlyOtp_wrongName(cs) == cs.hasAmr /\ Len(cs.amr) = 1 /\ cs.amr[1] = "recovery"

\* guard.js Step 4 (and auth.js isRecoverySession): amr has exactly one entry, method otp
hasOnlyOtp(cs) == cs.hasAmr /\ Len(cs.amr) = 1 /\ cs.amr[1] = "otp"

GuardFaults == {"none", "getSessionThrows", "sessionError", "userError", "signOutThrows"}

\* mutant: Step 6 turns away only a session known to be aal1
guard_onlyAal1(cs, fs, gf) ==
  LET leave(d, so) == [dest |-> d, signOut |-> so] IN
  IF gf = "getSessionThrows" THEN leave("index.html", FALSE)
  ELSE IF gf = "sessionError" THEN leave("index.html", FALSE)
  ELSE IF ~cs.present THEN leave("index.html", FALSE)
  ELSE IF hasOnlyOtp(cs) THEN leave("reset-password.html", FALSE)
  ELSE IF gf = "userError" THEN leave("index.html", TRUE)
  ELSE IF Verified(fs) # {} /\ GuardAAL(cs) = "aal1"
    THEN leave("index.html", gf # "signOutThrows")
  ELSE leave("granted", FALSE)

\* guard.js lines 37-184: destination and whether supabase.auth.signOut() ran
guard(cs, fs, gf) ==
  LET leave(d, so) == [dest |-> d, signOut |-> so] IN
  IF gf = "getSessionThrows" THEN leave("index.html", FALSE)
  ELSE IF gf = "sessionError" THEN leave("index.html", FALSE)
  ELSE IF ~cs.present THEN leave("index.html", FALSE)
  ELSE IF hasOnlyOtp(cs) THEN leave("reset-password.html", FALSE)
  ELSE IF gf = "userError" THEN leave("index.html", TRUE)
  ELSE IF Verified(fs) # {}
    THEN (IF GuardAAL(cs) = "undef" THEN leave("index.html", gf # "signOutThrows")
          ELSE IF GuardAAL(cs) = "aal2" THEN leave("granted", FALSE)
          ELSE leave("index.html", gf # "signOutThrows"))
  ELSE leave("granted", FALSE)

\* A failing getSession() yields no session.
GuardRuns ==
  [cs : {NoCS}, gf : {"getSessionThrows", "sessionError"}]
    \cup [cs : ClientSessions, gf : {"none", "userError", "signOutThrows"}]

RouteGuard ==
  \E run \in GuardRuns :
    LET cs == run.cs
        gf == run.gf
        g  == guard(cs, factors, gf) IN
    /\ sessions' = IF g.signOut THEN RevokeAll(sessions) ELSE sessions
    /\ last' = [Idle EXCEPT !.op = "guard", !.cs = cs, !.fault = gf, !.dest = g.dest,
                            !.flags = IF g.signOut THEN {"signOut"} ELSE {}]
    /\ UNCHANGED <<password, factors, profile, audit, now, stale, rows>>

\* ------------------------------------------------------------ requireAuth
\* supabase-client.js lines 93-102: session.aal, or JSON.parse(atob(token.split('.')[1]))
\* (plain atob: a payload with base64url characters does not decode)
RequireAuthAAL(cs) ==
  IF cs.aal = "undef" /\ cs.enc # "none"
    THEN (IF cs.enc = "std" THEN cs.claim ELSE "undef")
    ELSE cs.aal

RequireFaults == {"none", "noClient", "sessionError", "refreshError", "listFactors"}

\* supabase-client.js lines 61-113; rs is what refreshSession() returns
requireAuth(cs, rs, fs, rf) ==
  LET session == IF cs.present THEN cs ELSE rs
      verifiedFactors == IF rf = "listFactors" THEN {} ELSE activeMfaFactors(fs)
  IN
  IF rf = "noClient" THEN "throw"
  ELSE IF rf = "sessionError" THEN "throw"
  ELSE IF ~cs.present /\ rf = "refreshError" THEN "throw"
  ELSE IF ~session.present THEN "throw"
  ELSE IF verifiedFactors # {} /\ RequireAuthAAL(session) = "aal1"
    THEN "login.html?mfa_required=1"
  ELSE "granted"

\* The session comes from getSession() or, when that finds none, from refreshSession().
RequireRuns ==
  [cs : {NoCS}, rs : {NoCS}, rf : {"noClient", "sessionError", "refreshError"}]
    \cup [cs : ClientSessions, rs : {NoCS}, rf : {"none", "listFactors"}]
    \cup [cs : {NoCS}, rs : ClientSessions, rf : {"none", "listFactors"}]

RequireAuth ==
  \E run \in RequireRuns :
    LET cs == run.cs
        rs == run.rs
        rf == run.rf IN
    /\ last' = [Idle EXCEPT !.op = "requireAuth", !.cs = IF cs.present THEN cs ELSE rs,
                            !.fault = rf, !.dest = requireAuth(cs, rs, factors, rf)]
    /\ UNCHANGED <<password, factors, profile, sessions, audit, now, stale, rows>>

\* The account a page load can meet: any factors, a live session.
FactorStates == {NoFactor, [status |-> "unverified", factor_type |-> "totp"]}
                  \cup [status : {"verified"}, factor_type : {"totp"} \cup OtherTypes]

InitClient ==
  /\ password = "pw1"
  /\ factors \in {f \in [Fids -> FactorStates] : \A i \in Fids : i > 2 => f[i] = NoFactor}
  /\ profile = [mfa_factors_count |-> 0, last_mfa_change |-> NULL]
  /\ sessions = [i \in Sids |-> [state |-> "live", aal |-> "aal1"]]
  /\ audit = <<>>
  /\ now = 0
  /\ stale = {}
  /\ rows = [i \in RowIds |-> NoRow]
  /\ last = Idle

NextClient ==
  \/ RouteGuard
  \/ RequireAuth

SpecClient == InitClient /\ [][NextClient]_vars

\* ------------------------------------------------- row level security
\* part_001 check_aal2(): the aal claim of request.jwt.claims is 'aal2'
check_aal2(tok) == tok.aal = "aal2"

Pol(n, t, c, a) == [name |-> n, table |-> t, cmd |-> c, aal2 |-> a]

\* CREATE POLICY statements of 20260113_enable_rls_security.sql: owner only
MigrationPolicies ==
  {Pol("Users can view own profile", "profiles", "select", FALSE),
   Pol("Users can update own profile", "profiles", "update", FALSE),
   Pol("Users can insert own profile", "profiles", "insert", FALSE),
   Pol("Users can view own expenses", "expenses", "select", FALSE),
   Pol("Users can create own expenses", "expenses", "insert", FALSE),
   Pol("Users can update own expenses", "expenses", "update", FALSE),
   Pol("Users can delete own expenses", "expenses", "delete", FALSE),
   Pol("Users can view own income", "income", "select", FALSE),
   Pol("Users can create own income", "income", "insert", FALSE),
   Pol("Users can update own income", "income", "update", FALSE),
   Pol("Users can delete own income", "income", "delete", FALSE)}

\* DROP POLICY statements of part_001
DroppedPolicies ==
  {"Users can update own expenses", "Users can delete own expenses",
   "Users can update own income", "Users can delete own income",
   "Users can update own profile"}

\* CREATE POLICY statements of part_001: owner, and aal2 or no verified factor
Aal2Policies ==
  {Pol("Users can update own expenses (AAL2 required)", "expenses", "update", TRUE),
   Pol("Users can delete own expenses (AAL2 required)", "expenses", "delete", TRUE),
   Pol("Users can update own income (AAL2 required)", "income", "update", TRUE),
   Pol("Users can delete own income (AAL2 required)", "income", "delete", TRUE),
   Pol("Users can update own profile (AAL2 for security)", "profiles", "update", TRUE)}

\* The policies in force once the migration and then part_001 have run.
Policies ==
  {p \in MigrationPolicies : p.name \notin DroppedPolicies} \cup Aal2Policies

\* check_aal2() OR NOT EXISTS (verified row of auth.mfa_factors)
PolicyPasses(p, tok, fs) == ~p.aal2 \/ check_aal2(tok) \/ Verified(fs) = {}

\* Permissive policies: a command on the caller's own row passes when one policy
\* for that table and command does.
RlsAllows(t, c, tok, fs) ==
  \E p \in Policies : p.table = t /\ p.cmd = c /\ PolicyPasses(p, tok, fs)

Commands == {"select", "insert", "update", "delete"}

\* Tokens the provider issued for the account's live sessions, at the level reached.
SessionTokens(ss) ==
  {Jwt(TRUE, TRUE, ss[i].aal, i) : i \in Live(ss)}

\* A request of the signed-in user on their own expenses or income rows.
DbRequest ==
  \E tok \in SessionTokens(sessions), t \in {"expenses", "income"}, c \in Commands :
    /\ last' = [Idle EXCEPT !.op = "db", !.tok = tok, !.table = t, !.cmd = c,
                            !.reason = IF RlsAllows(t, c, tok, factors)
                                         THEN "allowed" ELSE "denied"]
    /\ UNCHANGED <<password, factors, profile, sessions, audit, now, stale, rows>>

\* Values a client can write into the two MFA columns of its profile row.
ProfileRows ==
  [mfa_factors_count : 0 .. MaxFactorId, last_mfa_change : {NULL} \cup Instants]

\* supabase.from('profiles').update(row) with the user's own session: the update
\* policy, then the BEFORE UPDATE trigger.
ProfileUpdate ==
  \E tok \in SessionTokens(sessions), new \in ProfileRows :
    LET ok == /\ RlsAllows("profiles", "update", tok, factors)
              /\ ~TriggerRaises(profile, new, now) IN
    /\ new # profile
    /\ profile' = IF ok THEN TriggerRow(profile, new, now) ELSE profile
    /\ last' = [Idle EXCEPT !.op = "profiles.update", !.tok = tok, !.table = "profiles",
                            !.cmd = "update",
                            !.reason = IF ok THEN "allowed" ELSE "denied"]
    /\ UNCHANGED <<password, factors, sessions, audit, now, stale, rows>>

\* auth.js signOut: client.auth.signOut() ends the browser's session
signOut ==
  \E s \in Live(sessions) :
    /\ sessions' = [sessions EXCEPT ![s].state = "revoked"]
    /\ last' = Did("signOut")
    /\ UNCHANGED <<password, factors, profile, audit, now, stale, rows>>

\* the database layer with the account's enrolment history
NextDb ==
  \/ DbRequest
  \/ ProfileUpdate
  \/ signIn
  \/ signOut
  \/ enrollMFA
  \/ EnrollOther
  \/ verifyMFAEnrollment
  \/ verifyMFA
  \/ Tick

SpecDb == Init /\ [][NextDb]_vars


\* ------------------------------------------------- direct unenroll
\* part_007 handleDisableMFA with auth.js disableMFA(factorId): the first listed
\* factor goes to supabase.auth.mfa.unenroll under the browser's session; the
\* provider asks aal2 for a verified factor (the requiresAAL2 error of disableMFA)
disableMFA ==
  \E s \in Live(sessions) :
    LET f  == Min(TotpList(factors))
        ok == factors[f].status = "verified" => sessions[s].aal = "aal2" IN
    /\ TotpList(factors) # {}
    /\ factors' = IF ok THEN [factors EXCEPT ![f] = Gone(@)] ELSE factors
    /\ last' = [Idle EXCEPT !.op = "disableMFA", !.vf = f,
                            !.reason = IF ok THEN "ok" ELSE "requiresAAL2"]
    /\ UNCHANGED <<password, profile, sessions, audit, now, stale, rows>>

\* both ways of removing a factor
NextDirect ==
  \/ DisableMfa
  \/ disableMFA
  \/ signIn
  \/ enrollMFA
  \/ EnrollOther
  \/ verifyMFAEnrollment
  \/ verifyMFA
  \/ Tick

SpecDirect == Init /\ [][NextDirect]_vars

\* ------------------------------------------- a freshly enrolled account
\* The account as signIn, enrollMFA and verifyMFAEnrollment leave it at time 0:
\* one verified TOTP factor, the session at aal2, the profile row untouched.
InitEnrolled ==
  /\ password = "pw1"
  /\ factors = [i \in Fids |-> IF i = 1 THEN [status |-> "verified", factor_type |-> "totp"]
                                        ELSE NoFactor]
  /\ profile = [mfa_factors_count |-> 0, last_mfa_change |-> NULL]
  /\ sessions = [i \in Sids |-> IF i = 1 THEN [state |-> "live", aal |-> "aal2"] ELSE NoSession]
  /\ audit = <<>>
  /\ now = 0
  /\ stale = {}
  /\ rows = [i \in RowIds |-> NoRow]
  /\ last = Did("verifyMFAEnrollment")

\* no further enrolment: the factor's verification stays at time 0
NextEnrolled ==
  \/ DisableMfa
  \/ signOut
  \/ signIn
  \/ verifyMFA
  \/ Tick

SpecEnrolled == InitEnrolled /\ [][NextEnrolled]_vars

\* ------------------------------------------- client password change
\* The provider refuses updateUser({password}) on an account with a verified
\* factor unless the session is aal2 (the AAL2 error the callers look for).
UpdateUserAllowed(sess, fs) == Verified(fs) = {} \/ sess.aal = "aal2"

\* The browser's session s changes the password from the settings page.  With
\* reauth the current password first goes to supabase.auth.signInWithPassword
\* on the browser's own client: on success the session it returns, a new aal1
\* session, takes the place of the one the browser held.
ClientPasswordChange(op, reauth) ==
  \E s \in Live(sessions), cur \in Passwords, new \in Passwords :
    LET signedIn == reauth /\ cur = password
        sess     == IF signedIn THEN [state |-> "live", aal |-> "aal1"] ELSE sessions[s]
        ok       == (reauth => cur = password) /\ UpdateUserAllowed(sess, factors)
    IN
    /\ sessions' = [sessions EXCEPT ![s] = sess]
    /\ stale' = IF signedIn THEN stale \ {s} ELSE stale
    /\ password' = IF ok THEN new ELSE password
    /\ last' = [Idle EXCEPT !.op = op, !.tok = Jwt(TRUE, TRUE, sessions[s].aal, s),
                            !.pw = cur, !.newpw = new,
                            !.reason = IF ok THEN "success"
                                       ELSE IF reauth /\ cur # password THEN "incorrect"
                                       ELSE "requiresAAL2"]
    /\ UNCHANGED <<factors, profile, audit, now, rows>>

\* auth.js changePassword: signInWithPassword, then updateUser
changePassword == ClientPasswordChange("changePassword", TRUE)

\* part_007 handlePasswordSubmit: signInWithPassword, then updatePassword
handlePasswordSubmit == ClientPasswordChange("handlePasswordSubmit", TRUE)

\* part_005 changePassword: updateUser alone, no re-authentication
changePasswordUpdateOnly == ClientPasswordChange("changePasswordUpdateOnly", FALSE)

ClientChangeOps == {"changePassword", "handlePasswordSubmit", "changePasswordUpdateOnly"}

\* the settings page of a signed-in account
NextSettings ==
  \/ changePassword
  \/ handlePasswordSubmit
  \/ changePasswordUpdateOnly
  \/ signIn
  \/ signOut
  \/ enrollMFA
  \/ verifyMFAEnrollment
  \/ verifyMFA

SpecSettings == Init /\ [][NextSettings]_vars

\* ------------------------------------------------------ row ownership
\* auth.uid() of a request: 1 is the account of this model, 2 another account
Uids == {1, 2}

RecordTables == {"expenses", "income", "profiles"}

Rows == [table : RecordTables, owner : Uids, val : {0, 1}]

\* The other account has no verified factor, or one.
OtherFactors ==
  {[i \in Fids |-> NoFactor],
   [i \in Fids |-> IF i = 1 THEN [status |-> "verified", factor_type |-> "totp"] ELSE NoFactor]}

\* Who sends a request: auth.uid(), the aal claim of the token and the rows of
\* auth.mfa_factors with that user_id.
Callers ==
  {[uid |-> 1, aal |-> tok.aal, fs |-> factors] : tok \in SessionTokens(sessions)}
    \cup [uid : {2}, aal : {"aal1", "aal2"}, fs : OtherFactors]

\* USING (auth.uid() = user_id [AND (check_aal2() OR NOT EXISTS ...)]), on the row as stored
Using(p, c, old) == old.owner = c.uid /\ PolicyPasses(p, c, c.fs)

\* mutant: UPDATE and INSERT policies without their WITH CHECK clause
WithCheck_missing(p, c, new) == TRUE

\* WITH CHECK (auth.uid() = user_id [AND ...]), on the row as written; the
\* profiles update policy of part_001 checks the owner alone
WithCheck(p, c, new) ==
  new.owner = c.uid /\ (p.table # "profiles" => PolicyPasses(p, c, c.fs))

\* A command passes when a policy for its table and command does: USING for
\* select, update and delete, WITH CHECK for insert and update.
RowAllowed(t, cmd, c, old, new) ==
  \E p \in Policies :
    /\ p.table = t /\ p.cmd = cmd
    /\ cmd \in {"select", "update", "delete"} => Using(p, c, old)
    /\ cmd \in {"insert", "update"} => WithCheck(p, c, new)

\* supabase.from(table).select / insert / update / delete aimed at row i
RowRequest ==
  \E c \in Callers, cmd \in Commands, i \in RowIds, new \in Rows :
    LET old == rows[i]
        t   == IF cmd = "insert" THEN new.table ELSE old.table
        ok  == RowAllowed(t, cmd, c, old, new) IN
    /\ IF cmd = "insert" THEN old = NoRow ELSE old # NoRow
    /\ cmd = "update" => new.table = old.table
    /\ cmd \in {"select", "delete"} => new = [old EXCEPT !.val = 0]
    /\ rows' = IF ~ok \/ cmd = "select" THEN rows
               ELSE IF cmd = "delete" THEN [rows EXCEPT ![i] = NoRow]
               ELSE [rows EXCEPT ![i] = new]
    /\ last' = [Idle EXCEPT !.op = "row", !.uid = c.uid, !.row = i, !.table = t,
                            !.cmd = cmd, !.reason = IF ok THEN "allowed" ELSE "denied"]
    /\ UNCHANGED <<password, factors, profile, sessions, audit, now, stale>>

\* two accounts' requests on the record tables
NextRows ==
  \/ RowRequest
  \/ signIn
  \/ signOut
  \/ enrollMFA
  \/ verifyMFAEnrollment
  \/ verifyMFA

SpecRows == Init /\ [][NextRows]_vars

\* ------------------------------------------------- security event log
\* A request under a user's or the anonymous key: auth.uid() and auth.role()
AuditCallers == [uid : Uids, role : {"authenticated"}] \cup {[uid |-> 0, role |-> "anon"]}

\* A row as a client would write it.
ClientAuditRow(u) ==
  [event_type |-> "client", factor_id |-> 0, factor_type |-> "none",
   was_last_factor |-> FALSE, remaining_factors |-> 0, had_mfa |-> FALSE,
   session_aal |-> "undef", user_id |-> u]

\* "Users can view own audit logs": FOR SELECT USING (auth.uid() = user_id)
AuditSelectUsing(c, row) == c.uid = row.user_id

\* mutant: the insert policy checks the row's owner instead of the role
AuditInsertCheck_owner(c, row) == c.uid = row.user_id

\* "Service role can insert audit logs": FOR INSERT WITH CHECK (auth.role() = 'service_role')
AuditInsertCheck(c, row) == c.role = "service_role"

\* RLS is enabled and no policy exists for UPDATE or DELETE.
AuditAllowed(cmd, c, old, new) ==
  CASE cmd = "select" -> AuditSelectUsing(c, old)
    [] cmd = "insert" -> AuditInsertCheck(c, new)
    [] OTHER          -> FALSE

RemoveAt(q, i) == [j \in 1 .. Len(q) - 1 |-> IF j < i THEN q[j] ELSE q[j + 1]]

\* supabase.from('security_audit_log') used from a browser; i = 0 for an insert
AuditRequest ==
  \E c \in AuditCallers, cmd \in Commands, i \in 0 .. Len(audit), u \in Uids :
    LET new == ClientAuditRow(u)
        old == IF i = 0 THEN new ELSE audit[i]
        ok  == AuditAllowed(cmd, c, old, new) IN
    /\ (cmd = "insert") = (i = 0)
    /\ cmd = "insert" => Len(audit) <= MaxAudit
    /\ cmd \in {"select", "delete"} => u = 1
    /\ audit' = IF ~ok \/ cmd = "select" THEN audit
                ELSE IF cmd = "insert" THEN Append(audit, new)
                ELSE IF cmd = "update" THEN [audit EXCEPT ![i] = new]
                ELSE RemoveAt(audit, i)
    /\ last' = [Idle EXCEPT !.op = "audit", !.uid = c.uid, !.row = i,
                            !.table = "security_audit_log", !.cmd = cmd,
                            !.reason = IF ok THEN "allowed" ELSE "denied"]
    /\ UNCHANGED <<password, factors, profile, sessions, now, stale, rows>>

\* the endpoints, which write the log, and the clients' requests on it
NextAudit ==
  \/ DisableMfa
  \/ ChangePassword
  \/ AuditRequest
  \/ signIn
  \/ enrollMFA
  \/ verifyMFAEnrollment
  \/ verifyMFA

SpecAudit == Init /\ [][NextAudit]_vars

\* ------------------------------------- an account in any profile state
\* Instants on both sides of the 24 hour mark
CoolingInstants ==
  Instants \cup {COOLING_HOURS * MinutesPerHour - 1, COOLING_HOURS * MinutesPerHour,
                 COOLING_HOURS * MinutesPerHour + 1}

\* One verified TOTP factor, a session at aal2, and the two MFA columns of the
\* profile row at any value, last_mfa_change not in the future.
InitCooling ==
  /\ password = "pw1"
  /\ factors = [i \in Fids |-> IF i = 1 THEN [status |-> "verified", factor_type |-> "totp"]
                                        ELSE NoFactor]
  /\ now \in CoolingInstants
  /\ profile \in {p \in [mfa_factors_count : 0 .. MaxFactorId,
                         last_mfa_change : {NULL} \cup CoolingInstants] :
                    p.last_mfa_change <= now}
  /\ sessions = [i \in Sids |-> IF i = 1 THEN [state |-> "live", aal |-> "aal2"] ELSE NoSession]
  /\ audit = <<>>
  /\ stale = {}
  /\ rows = [i \in RowIds |-> NoRow]
  /\ last = Idle

\* the two places that enforce the cooling period
NextCooling ==
  \/ DisableMfa
  \/ ProfileUpdate
  \/ signIn
  \/ Tick

SpecCooling == InitCooling /\ [][NextCooling]_vars

\* -------------------------------------------------- login: the MFA step
\* part_005 verifyMFA: the step that fails, if one does
VerifyFaults == {"none", "getSession", "noSession", "challenge", "setSession", "refresh",
                 "finalGetSession"}

\* What mfa.verify returns on success: data.session, the tokens directly in
\* data, or neither
VerifyResponses == {"session", "flat", "none"}

\* What getSession() can hand back in STEP 8
FinalSessions == {cs \in ClientSessions : ~cs.hasAmr}

VerifyRuns ==
  [fault : VerifyFaults, code : {"good", "bad"}, resp : VerifyResponses, final : FinalSessions]

\* part_005 lines 505-519: finalSession.aal, filled from the token's claim when empty
FinalAAL(cs) ==
  IF cs.aal # "undef" THEN cs.aal
  ELSE IF cs.enc # "none" /\ decodeJWT(cs) \in {"aal1", "aal2"} THEN decodeJWT(cs)
  ELSE "undef"

\* The provider took the code: mfa.challenge and mfa.verify returned no error.
CodeAccepted(run) ==
  run.fault \notin {"getSession", "noSession", "challenge"} /\ run.code = "good"

\* mutant: STEP 9 left out, success follows from the session being there
verifyMFASuccess_noStep9(run) ==
  /\ CodeAccepted(run)
  /\ run.resp # "none"
  /\ run.fault \notin {"setSession", "finalGetSession"}
  /\ run.final.present

\* part_005 verifyMFA lines 289-597: the success field of its result
verifyMFASuccess(run) ==
  /\ CodeAccepted(run)
  /\ run.resp # "none"
  /\ run.fault \notin {"setSession", "finalGetSession"}
  /\ run.final.present
  /\ FinalAAL(run.final) = "aal2"

\* login-page.js mfaForm submit handler: verifyMFA(pendingFactorId, code), then
\* app.html when result.success, result.session and result.session.aal === 'aal2'
MfaFormSubmit ==
  \E s \in Live(sessions), run \in VerifyRuns, entered \in {"six", "short"} :
    LET success == entered = "six" /\ verifyMFASuccess(run) IN
    /\ VerifiedTotp(factors) # {}
    /\ entered = "short" => run = [fault |-> "none", code |-> "bad", resp |-> "none", final |-> NoCS]
    /\ sessions' = IF entered = "six" /\ CodeAccepted(run)
                     THEN [sessions EXCEPT ![s].aal = "aal2"] ELSE sessions
    /\ last' = [Idle EXCEPT !.op = "mfaForm", !.cs = run.final, !.fault = run.fault,
                            !.code = IF entered = "short" THEN "short" ELSE run.code,
                            !.resp = run.resp,
                            !.flags = IF success THEN {"success"} ELSE {},
                            !.dest = IF success /\ FinalAAL(run.final) = "aal2"
                                       THEN "app.html" ELSE ""]
    /\ UNCHANGED <<password, factors, profile, audit, now, stale, rows>>

\* signing in on the login page
NextLogin ==
  \/ MfaFormSubmit
  \/ signIn
  \/ signOut
  \/ enrollMFA
  \/ verifyMFAEnrollment

SpecLogin == Init /\ [][NextLogin]_vars

\* -------------------------------------------------- password reset flow
\* The sessions the reset pages meet: aal field and token claim agree.
PageSessions ==
  {cs \in ClientSessions :
     cs.present => (cs.aal \in {"aal1", "aal2"} /\ cs.enc = "std" /\ cs.claim = cs.aal)}

\* The browser holds cs for one of the account's live sessions.
Held(cs, ss) == cs.present => \E s \in Live(ss) : cs.aal = ss[s].aal

\* part_005 resetPassword / new-password-page.js: the link of the reset e-mail
\* signs the browser in with an aal1 session, no password asked
recoveryLink ==
  \E s \in Sids :
    /\ s = Min(FreeSids(sessions) \cup {MaxSessions + 1})
    /\ sessions' = [sessions EXCEPT ![s] = [state |-> "live", aal |-> "aal1"]]
    /\ stale' = stale \ {s}
    /\ last' = Did("recoveryLink")
    /\ UNCHANGED <<password, factors, profile, audit, now, rows>>

\* part_005 line 794: (session?.user?.amr || []).some(item => item.method === 'recovery' || item.method === 'otp')
isRecoveryAny(cs) ==
  cs.present /\ cs.hasAmr /\ \E i \in 1 .. Len(cs.amr) : cs.amr[i] \in {"recovery", "otp"}

\* updateUser failing for a reason of its own, other than the AAL2 requirement
UpdateFaults == {"none", "other"}

\* part_005 updatePassword lines 770-816: whether the provider took the new
\* password, the success and requiresAAL2 fields of the result, and whether
\* the catch block went on to classify the session (checked, isRecovery)
updatePassword(sess, cs, fs, uf) ==
  LET accepted   == uf = "none" /\ UpdateUserAllowed(sess, fs)
      aal2Error  == uf = "none" /\ ~UpdateUserAllowed(sess, fs)
      isRecovery == aal2Error /\ isRecoveryAny(cs)
  IN [accepted |-> accepted,
      success |-> accepted \/ isRecovery,
      requiresAAL2 |-> aal2Error /\ ~isRecovery,
      checked |-> aal2Error,
      isRecovery |-> isRecovery]

\* checkMFAStatus: {success: true, enabled: hasMFA, factors: totpFactors}
checkMFAStatus(fs) == [success |-> TRUE, enabled |-> TotpList(fs) # {}]

\* mfaStatus.hasMFA as new-password-page.js line 125 reads it
HasMFAField(r) == "hasMFA" \in DOMAIN r /\ r.hasMFA

\* new-password-page.js newPasswordForm submit handler, lines 88-147
newPasswordSubmit ==
  \E s \in Live(sessions), cs \in PageSessions, new \in Passwords,
     form \in {"ok", "mismatch", "weak"}, uf \in UpdateFaults :
    LET r      == updatePassword(sessions[s], cs, factors, uf)
        called == form = "ok" IN
    /\ cs.present => cs.aal = sessions[s].aal
    /\ ~called => (uf = "none" /\ new = "pw1")
    /\ (~called \/ ~r.checked) => cs = NoCS
    /\ password' = IF called /\ r.accepted THEN new ELSE password
    /\ last' = [Idle EXCEPT
                  !.op = "newPasswordForm", !.tok = Jwt(TRUE, TRUE, sessions[s].aal, s),
                  !.cs = cs, !.newpw = new, !.fault = uf, !.code = form,
                  !.reason = IF ~called THEN "not_submitted"
                             ELSE IF r.accepted THEN "accepted"
                             ELSE IF uf # "none" THEN "error"
                             ELSE "aal2_required",
                  !.flags = (IF called /\ r.success THEN {"success"} ELSE {})
                              \cup (IF called /\ r.requiresAAL2 THEN {"requiresAAL2"} ELSE {}),
                  !.resp = IF called /\ r.checked
                             THEN (IF r.isRecovery THEN "recovery" ELSE "normal")
                             ELSE "",
                  !.dest = IF called /\ r.success
                             THEN (IF HasMFAField(checkMFAStatus(factors))
                                     THEN "mfaSection" ELSE "app.html")
                             ELSE ""]
    /\ UNCHANGED <<factors, profile, sessions, audit, now, stale, rows>>

\* part_003 checkExistingSession, lines 13-49
checkExistingSession ==
  \E cs \in PageSessions, hash \in {"none", "recovery"} :
    /\ Held(cs, sessions)
    /\ hash = "recovery" => cs = NoCS
    /\ last' = [Idle EXCEPT
                  !.op = "checkExistingSession", !.cs = cs, !.code = hash,
                  !.resp = IF hash = "recovery" \/ ~cs.present THEN ""
                           ELSE IF hasOnlyOtp(cs) THEN "recovery" ELSE "normal",
                  !.dest = IF hash = "recovery" THEN "reset-password.html#"
                           ELSE IF ~cs.present THEN ""
                           ELSE IF hasOnlyOtp(cs) THEN "reset-password.html"
                           ELSE "app.html"]
    /\ UNCHANGED <<password, factors, profile, sessions, audit, now, stale, rows>>

\* auth.js isRecoverySession, lines 519-538: amr = session.user.amr || []
isRecoverySession ==
  \E cs \in PageSessions, f \in {"none", "getSessionThrows"} :
    LET amr == IF cs.hasAmr THEN cs.amr ELSE <<>>
        hasOnly == Len(amr) = 1 /\ amr[1] = "otp" IN
    /\ Held(cs, sessions)
    /\ f # "none" => cs = NoCS
    /\ last' = [Idle EXCEPT
                  !.op = "isRecoverySession", !.cs = cs, !.fault = f,
                  !.resp = IF f # "none" \/ ~cs.present THEN ""
                           ELSE IF hasOnly THEN "recovery" ELSE "normal",
                  !.flags = IF f = "none" /\ cs.present /\ hasOnly THEN {"isRecovery"} ELSE {}]
    /\ UNCHANGED <<password, factors, profile, sessions, audit, now, stale, rows>>

\* the reset link, the pages it leads to and the route guard
NextRecovery ==
  \/ newPasswordSubmit
  \/ checkExistingSession
  \/ isRecoverySession
  \/ RouteGuard
  \/ recoveryLink
  \/ signIn
  \/ signOut
  \/ enrollMFA
  \/ verifyMFAEnrollment
  \/ verifyMFA

SpecRecovery == Init /\ [][NextRecovery]_vars

\* ------------------------------- an account with factors of every rank
\* What listFactors can hold for an account: TOTP factors as enrollMFA and
\* verifyMFAEnrollment leave them, and verified factors of the other types
\* FACTOR_STRENGTH ranks.
AccountFactorStates ==
  {NoFactor, [status |-> "unverified", factor_type |-> "totp"]}
    \cup [status : {"verified"}, factor_type : FactorTypes]

\* Any such factors, a session at aal2 and the two MFA columns of the profile
\* row at any value, last_mfa_change not in the future.
InitAccount ==
  /\ password = "pw1"
  /\ factors \in [Fids -> AccountFactorStates]
  /\ now = 0
  /\ profile \in {p \in ProfileRows : p.last_mfa_change <= now}
  /\ sessions = [i \in Sids |-> IF i = 1 THEN [state |-> "live", aal |-> "aal2"] ELSE NoSession]
  /\ audit = <<>>
  /\ stale = {}
  /\ rows = [i \in RowIds |-> NoRow]
  /\ last = Idle

\* disable-mfa on such an account
NextAccount ==
  \/ DisableMfa
  \/ signIn
  \/ verifyMFA
  \/ Tick

SpecAccount == InitAccount /\ [][NextAccount]_vars

\* ================================================================ claims
Endpoints == {"disable-mfa", "change-password"}

Identified(tok) == tok.kind = "jwt" /\ tok.email /\ tok.sub

Called(c) == \E i \in 1 .. Len(last.calls) : last.calls[i] = c

StrongerThan(fs, f) ==
  {g \in Verified(fs) \ {f} :
     FACTOR_STRENGTH(fs[g].factor_type) > FACTOR_STRENGTH(fs[f].factor_type)}

\* C1 as written: a disable-mfa request whose token does not carry aal2 gets
\* 403 with requiresAAL2 and no call beyond the gate is made.
C1_Original ==
  (last.op = "disable-mfa" /\ last.tok.kind = "jwt" /\ last.tok.aal # "aal2")
    => (last.status = 403 /\ "requiresAAL2" \in last.flags /\ last.calls = <<>>)

\* C1 (amended): a disable-mfa request whose token does not carry aal2 never
\* succeeds and makes no password check, factor removal, profile update,
\* revocation or audit write; when the token names its email and user id the
\* answer is 403 with requiresAAL2.
C1_AALGate ==
  [][(last'.op = "disable-mfa" /\ last'.tok.aal # "aal2")
       => /\ last'.calls = <<>>
          /\ last'.status \in {401, 403, 500}
          /\ UNCHANGED <<password, factors, profile, sessions, audit>>
          /\ Identified(last'.tok)
               => (last'.status = 403 /\ "requiresAAL2" \in last'.flags)]_vars

C1_Witness ==
  /\ last.op = "disable-mfa"
  /\ last.tok = Jwt(TRUE, TRUE, "undef", 0)
  /\ last.status = 403
  /\ "requiresAAL2" \in last.flags
  /\ Verified(factors) # {}

\* C2: when another verified factor is strictly stronger than the factor picked
\* for removal, disable-mfa rejects the request and the factor stays verified.
C2_Original ==
  (last.op = "disable-mfa" /\ last.vf # 0 /\ StrongerThan(factors, last.vf) # {})
    => (last.status # 200 /\ factors[last.vf].status = "verified")

\* C3: a request that no call failed in never takes the account from some
\* verified factor to none while last_mfa_change is under 24 hours old.
C3_Original ==
  [][(last'.op = "disable-mfa" /\ last'.fault = "none"
        /\ Verified(factors) # {} /\ Verified(factors') = {})
       => \/ profile.last_mfa_change = NULL
          \/ now - profile.last_mfa_change >= COOLING_HOURS * MinutesPerHour]_vars

\* C4: after a success response of either endpoint no session of the account
\* is live (a failed revocation would have been reported as a failure).
C4_Original ==
  (last.op \in Endpoints /\ last.status = 200) => Live(sessions) = {}

\* C5: a request that presents the token of a session issued before an earlier
\* successful change is rejected.
C5_Original ==
  [][(last'.op \in Endpoints /\ last'.tok.sid \in stale) => last'.status # 200]_vars

\* C6: while the account holds a verified factor of any type, a change-password
\* request whose token is not aal2 never reaches the password update.
C6_Original ==
  (last.op = "change-password" /\ Verified(factors) # {} /\ last.tok.aal # "aal2")
    => (last.status # 200 /\ ~Called("updateUserById"))

RejectReasons ==
  {"missing_field", "wrong_password", "wrong_code", "insufficient_aal", "hierarchy", "cooling"}

\* C7: a request rejected for a missing field, a wrong password, a wrong code,
\* insufficient assurance, the hierarchy or the cooling period leaves password,
\* factors, profile row and audit log as they were and revokes no session.
C7_RejectionFrame ==
  [][(last'.op \in Endpoints /\ last'.reason \in RejectReasons)
       => /\ UNCHANGED <<password, factors, profile, audit>>
          /\ \A s \in Sids : sessions[s].state = "live" => sessions'[s].state = "live"]_vars

C7_Witness ==
  /\ last.op = "disable-mfa"
  /\ last.reason = "cooling"
  /\ last.status = 403
  /\ Live(sessions) # {}
  /\ Len(audit) > 0

\* The level a session presents: the explicit field, else the token's claim.
EffectiveLevel(cs) ==
  IF cs.aal # "undef" THEN cs.aal
  ELSE IF cs.enc \in {"std", "url"} THEN cs.claim
  ELSE "undef"

IsRecovery(cs) == cs.hasAmr /\ cs.amr = <<"otp">>

C9_RecoveryRedirect ==
  (last.op = "guard" /\ last.cs.present /\ IsRecovery(last.cs))
    => last.dest = "reset-password.html"

C9_Witness ==
  /\ last.op = "guard"
  /\ IsRecovery(last.cs)
  /\ last.cs.aal = "aal2"
  /\ Verified(factors) = {}
  /\ last.dest = "reset-password.html"

Undetermined(cs) ==
  cs.aal = "undef" /\ (cs.enc \in {"none", "bad"} \/ cs.claim = "undef")

\* C10: with a verified factor on the account and a session whose level cannot
\* be determined, the route guard and requireAuth both redirect to sign-in.
C10_Original ==
  (last.op \in {"guard", "requireAuth"} /\ last.fault = "none"
     /\ last.cs.present /\ ~IsRecovery(last.cs)
     /\ VerifiedTotp(factors) # {} /\ Undetermined(last.cs))
    => last.dest \in {"index.html", "login.html?mfa_required=1"}

\* C11: with a verified factor on the account, a database request whose token
\* is not aal2 is denied select, insert, update and delete on the account's
\* expenses and income rows.
C11_Original ==
  (last.op = "db" /\ last.table \in {"expenses", "income"}
     /\ VerifiedTotp(factors) # {} /\ last.tok.aal # "aal2")
    => last.reason = "denied"

\* The account's cooling period is over (or never started) at time t.
CoolingOver(p, t) ==
  p.last_mfa_change = NULL \/ t - p.last_mfa_change >= COOLING_HOURS * MinutesPerHour

\* C12: the client's direct unenroll call removes a verified factor only when
\* no stronger verified factor exists and, for the last factor, the cooling
\* period is over.
C12_Original ==
  [][\A f \in Fids :
       (last'.op = "disableMFA" /\ factors[f].status = "verified"
          /\ factors'[f].status # "verified")
         => /\ StrongerThan(factors, f) = {}
            /\ Verified(factors) # {f} \/ CoolingOver(profile, now)]_vars

\* Position of the first call named c in a call log, 0 when it was not made.
FirstCall(calls, c) ==
  IF \E i \in 1 .. Len(calls) : calls[i] = c
    THEN Min({i \in 1 .. Len(calls) : calls[i] = c})
    ELSE 0

CalledBefore(calls, a, b) ==
  FirstCall(calls, a) > 0 /\ FirstCall(calls, a) < FirstCall(calls, b)

\* C13: disable-mfa takes a verified factor away only in a request whose
\* password is the account's and whose code passed a challenge of that same
\* factor, both verified before the unenroll call.
C13_Reverified ==
  [][\A f \in Fids :
       (last'.op = "disable-mfa" /\ factors[f].status = "verified"
          /\ factors'[f].status # "verified")
         => /\ last'.pw = password
            /\ last'.code = "good"
            /\ last'.vf = f
            /\ CalledBefore(last'.calls, "signInWithPassword", "unenroll")
            /\ CalledBefore(last'.calls, "challenge", "verify")
            /\ CalledBefore(last'.calls, "verify", "unenroll")]_vars

C13_Witness ==
  /\ last.op = "disable-mfa"
  /\ last.vf # 0
  /\ factors[last.vf].status = "removed"
  /\ last.pw = password
  /\ last.code = "good"
  /\ last.tok.sid # 0

\* C14: a request whose token asserts aal2 without being issued by the provider
\* for a session, on an account none of whose sessions reached aal2, is never
\* answered with success (and so changes neither password nor factors).
C14_Original ==
  (last.op \in Endpoints /\ last.tok.sid = 0 /\ last.tok.aal = "aal2"
     /\ VerifiedTotp(factors) # {}
     /\ \A s \in Sids : sessions[s].aal # "aal2")
    => last.status # 200

\* C15: an update of the profile row made with the account's own session never
\* changes mfa_factors_count and never moves last_mfa_change to null or to an
\* earlier time.
C15_Original ==
  [][last'.op = "profiles.update"
       => /\ profile'.mfa_factors_count = profile.mfa_factors_count
          /\ profile.last_mfa_change # NULL
               => /\ profile'.last_mfa_change # NULL
                  /\ profile'.last_mfa_change >= profile.last_mfa_change]_vars

\* C16: an enrolment verification or a disable that changes the number of
\* verified factors leaves last_mfa_change at the time of that change.
C16_Original ==
  [][(last'.op \in {"verifyMFAEnrollment", "disable-mfa"}
        /\ Cardinality(Verified(factors')) # Cardinality(Verified(factors)))
       => profile'.last_mfa_change = now]_vars

\* C17: ten minutes after its only TOTP factor was verified, an account calling
\* disable-mfa with an aal2 token, its password and a correct code is rejected
\* for the cooling period with hoursRemaining 24 and without requiresAAL2, and
\* the factor stays verified.
C17_Original ==
  (last.op = "disable-mfa" /\ now = 10 /\ last.fault = "none"
     /\ last.tok.aal = "aal2" /\ last.pw = password /\ last.code = "good"
     /\ last.vf = 1)
    => /\ last.status = 403
       /\ last.reason = "cooling"
       /\ "requiresAAL2" \notin last.flags
       /\ last.hours = COOLING_HOURS
       /\ factors[1].status = "verified"

\* C18: for an account with exactly one verified factor, a disable-mfa request
\* with valid token, password and code is rejected with hoursRemaining = 1 when
\* last_mfa_change is 23 hours old and is accepted when it is 25 hours old; a
\* cooling rejection reports 24 minus the elapsed hours, rounded up.
C18_Original ==
  [][(last'.op = "disable-mfa" /\ last'.fault = "none"
        /\ last'.tok.aal = "aal2" /\ last'.pw = password /\ last'.code = "good"
        /\ Cardinality(Verified(factors)) = 1 /\ VerifiedTotp(factors) = Verified(factors)
        /\ profile.last_mfa_change # NULL)
       => LET elapsed == now - profile.last_mfa_change IN
          /\ elapsed = 23 * MinutesPerHour
               => (last'.status = 403 /\ last'.reason = "cooling" /\ last'.hours = 1)
          /\ elapsed = 25 * MinutesPerHour => last'.status = 200
          /\ last'.reason = "cooling"
               => last'.hours = CeilDiv(COOLING_HOURS * MinutesPerHour - elapsed,
                                        MinutesPerHour)]_vars

\* Place of a call in the chain: credential verification, Factor Removal Guard,
\* mutation, session revocation, audit write.
StepRank(c) ==
  CASE c \in {"signInWithPassword", "listFactors", "challenge", "verify"} -> 1
    [] c = "profiles.select" -> 2
    [] c \in {"profiles.update", "unenroll", "updateUserById"} -> 3
    [] c = "signOut" -> 4
    [] c = "audit.insert" -> 5
    [] OTHER -> 0

InChainOrder(calls) ==
  \A i, j \in 1 .. Len(calls) : i < j => StepRank(calls[i]) <= StepRank(calls[j])

\* C19: the calls of a run follow the chain order, and a run that committed a
\* change of the password, the factors or the profile row has issued the
\* revocation call before it responds.
C19_Original ==
  [][last'.op \in Endpoints
       => /\ InChainOrder(last'.calls)
          /\ <<password, factors, profile>> # <<password', factors', profile'>>
               => FirstCall(last'.calls, "signOut") > 0]_vars

AuditInserts(calls) == {i \in 1 .. Len(calls) : calls[i] = "audit.insert"}

\* C20: a run that succeeds attempted exactly one audit insert, after the
\* revocation call; a run that does not succeed attempted none; and a run whose
\* audit insert failed still answers success with its change committed, the
\* sessions revoked and the log as it was.
C20_AuditNeverBlocks ==
  [][last'.op \in Endpoints
       => /\ last'.status = 200
               => /\ Cardinality(AuditInserts(last'.calls)) = 1
                  /\ CalledBefore(last'.calls, "signOut", "audit.insert")
          /\ last'.status # 200 => AuditInserts(last'.calls) = {}
          /\ (last'.fault = "audit" /\ AuditInserts(last'.calls) # {})
               => /\ last'.status = 200
                  /\ audit' = audit
                  /\ Live(sessions') = {}
                  /\ last'.op = "disable-mfa"
                       => (factors[last'.vf].status = "verified"
                             /\ factors'[last'.vf].status = "removed")
                  /\ last'.op = "change-password" => password' = last'.newpw]_vars

C20_Witness ==
  /\ last.op = "disable-mfa"
  /\ last.fault = "audit"
  /\ last.status = 200
  /\ factors[last.vf].status = "removed"
  /\ audit = <<>>

\* C21: a disable-mfa request that repeats the one that has just removed a
\* factor is answered 404 and changes nothing: no factor, no profile field, no
\* session, no audit record.
C21_Original ==
  [][(last.op = "disable-mfa" /\ last.status = 200 /\ last.fault = "none"
        /\ last.tok.sid # 0
        /\ last'.op = "disable-mfa" /\ last'.fault = "none"
        /\ last'.tok = last.tok /\ last'.pw = last.pw /\ last'.code = last.code)
       => /\ last'.status = 404
          /\ UNCHANGED <<password, factors, profile, sessions, audit>>]_vars

\* C22: with a verified factor on the account and a session whose effective
\* level is not aal2, the route guard and requireAuth both sign the session out
\* and redirect to sign-in with the flag that opens the second-factor prompt;
\* no session stays live.
C22_Original ==
  (last.op \in {"guard", "requireAuth"} /\ last.fault = "none"
     /\ last.cs.present /\ ~IsRecovery(last.cs)
     /\ VerifiedTotp(factors) # {} /\ EffectiveLevel(last.cs) # "aal2")
    => /\ last.dest = "login.html?mfa_required=1"
       /\ Live(sessions) = {}

\* C23: a password change started from a browser session at aal2 leaves that
\* browser with a live aal2 session, whether the current password was right or
\* wrong.
C23_Original ==
  [][(last'.op \in ClientChangeOps /\ last'.tok.aal = "aal2")
       => sessions'[last'.tok.sid] = [state |-> "live", aal |-> "aal2"]]_vars

\* C24: a row of expenses, income or profiles is read, created, changed or
\* deleted only by a request of its owner, and a row never passes to another
\* owner.
C24_OwnRowsOnly ==
  [][/\ \A i \in RowIds :
          rows'[i] # rows[i]
            => /\ last'.op = "row" /\ last'.row = i /\ last'.reason = "allowed"
               /\ rows[i] # NoRow => rows[i].owner = last'.uid
               /\ rows'[i] # NoRow => rows'[i].owner = last'.uid
     /\ (last'.op = "row" /\ last'.reason = "allowed" /\ last'.cmd # "insert")
          => rows[last'.row].owner = last'.uid]_vars

C24_Witness ==
  /\ last.op = "row"
  /\ last.cmd = "update"
  /\ last.reason = "allowed"
  /\ last.uid = 2
  /\ rows[last.row].val = 1
  /\ \E i \in RowIds : rows[i] # NoRow /\ rows[i].owner = 1

IsPrefix(p, q) == Len(p) <= Len(q) /\ \A i \in 1 .. Len(p) : q[i] = p[i]

\* C25: a client request on the security event log never changes it and reads
\* a record only when it belongs to the caller; the log only grows, by records
\* the endpoints append, and the records it holds stay as they are.
C25_AuditAppendOnly ==
  [][/\ IsPrefix(audit, audit')
     /\ audit' # audit => last'.op \in Endpoints
     /\ last'.op = "audit"
          => /\ audit' = audit
             /\ last'.cmd # "select" => last'.reason = "denied"
             /\ (last'.cmd = "select" /\ last'.reason = "allowed")
                  => audit[last'.row].user_id = last'.uid]_vars

C25_Witness ==
  /\ last.op = "audit"
  /\ last.cmd = "delete"
  /\ last.uid = 1
  /\ last.reason = "denied"
  /\ Len(audit) = 1
  /\ audit[1].user_id = 1

\* C26: whenever disable-mfa reads the profile row for a last-factor disable,
\* it rejects for the cooling period exactly when the profiles trigger would
\* raise on the update of mfa_factors_count to zero at that time, and the
\* hoursRemaining it reports is the number in the trigger's message.
C26_SameCooling ==
  [][(last'.op = "disable-mfa" /\ FirstCall(last'.calls, "profiles.select") > 0
        /\ last'.fault # "profileLookup")
       => LET new == [mfa_factors_count |-> 0, last_mfa_change |-> now] IN
          /\ (last'.reason = "cooling") = TriggerRaises(profile, new, now)
          /\ last'.reason = "cooling" => last'.hours = TriggerHours(profile, now)]_vars

C26_Witness ==
  /\ last.op = "disable-mfa"
  /\ last.reason = "cooling"
  /\ last.hours = 1
  /\ profile.mfa_factors_count > 0
  /\ now - profile.last_mfa_change = COOLING_HOURS * MinutesPerHour - 1

\* C27: a disable-mfa run whose profile lookup failed, or whose profile update
\* was refused by the datastore or by the cooling trigger, does not answer
\* success and leaves the factors as they were.
C27_Original ==
  [][(/\ last'.op = "disable-mfa"
      /\ \/ last'.fault = "profileLookup" /\ FirstCall(last'.calls, "profiles.select") > 0
         \/ last'.fault = "profileUpdate" /\ FirstCall(last'.calls, "profiles.update") > 0
         \/ /\ FirstCall(last'.calls, "profiles.update") > 0
            /\ TriggerRaises(profile, [mfa_factors_count |-> 0, last_mfa_change |-> now], now)
            /\ Cardinality(activeMfaFactors(factors)) = 1)
       => (last'.status # 200 /\ factors' = factors)]_vars

\* C28: however disable-mfa requests and direct unenroll calls follow one
\* another, the step that takes the account's last verified factor away finds
\* last_mfa_change unset or at least 24 hours old (stated for the runs in which
\* no call of that step fails, the sessions of earlier changes are revoked and
\* the profile row counts a factor).
C28_Original ==
  [][(last'.op \in {"disable-mfa", "disableMFA"} /\ last'.fault = "none"
        /\ Live(sessions) \cap stale = {}
        /\ profile.mfa_factors_count > 0
        /\ Verified(factors) # {} /\ Verified(factors') = {})
       => CoolingOver(profile, now)]_vars

\* C29: when the stored session.aal field and the aal claim of the access
\* token differ, the route guard and requireAuth decide by the token's claim:
\* with a verified factor on the account, access is granted exactly when the
\* claim is aal2.
C29_Original ==
  (last.op \in {"guard", "requireAuth"} /\ last.fault = "none"
     /\ last.cs.present /\ ~IsRecovery(last.cs)
     /\ VerifiedTotp(factors) # {}
     /\ last.cs.enc = "std" /\ last.cs.claim \in {"aal1", "aal2"}
     /\ last.cs.aal \in {"aal1", "aal2"} /\ last.cs.aal # last.cs.claim)
    => (last.dest = "granted") = (last.cs.claim = "aal2")

ValidDisable(l, pw) ==
  l.op = "disable-mfa" /\ l.fault = "none" /\ l.tok.aal = "aal2" /\ l.pw = pw /\ l.code = "good"

\* C31: a disable-mfa request that leaves a verified factor on the account is
\* never rejected for the cooling period.
C31_Original ==
  [][(last'.op = "disable-mfa" /\ last'.tok.sid # 0 /\ last'.vf # 0
        /\ Verified(factors) \ {last'.vf} # {})
       => last'.reason # "cooling"]_vars

\* C32: when every other verified factor is as strong as the factor picked
\* for removal or weaker, disable-mfa does not reject for the hierarchy, and a
\* request whose credentials pass gets as far as the cooling check or succeeds.
C32_EqualNeverBlocks ==
  [][(last'.op = "disable-mfa" /\ last'.vf # 0
        /\ \A g \in Verified(factors) \ {last'.vf} :
              FACTOR_STRENGTH(factors[g].factor_type)
                <= FACTOR_STRENGTH(factors[last'.vf].factor_type))
       => /\ last'.reason # "hierarchy"
          /\ "factorHierarchy" \notin last'.flags
          /\ ValidDisable(last', password) => last'.reason \in {"ok", "cooling"}]_vars

C32_Witness ==
  /\ last.op = "disable-mfa"
  /\ last.status = 200
  /\ last.vf # 0
  /\ factors[last.vf] = Gone([status |-> "verified", factor_type |-> "totp"])
  /\ \E g \in Verified(factors) : factors[g].factor_type = "totp"

\* The account holds exactly an app-code factor a and an sms-code factor s, both verified.
AppAndSms(fs, a, s) ==
  /\ Verified(fs) = {a, s}
  /\ fs[a].factor_type = "totp"
  /\ fs[s].factor_type = "phone"

C34_Original ==
  [][(last'.op = "disable-mfa" /\ last'.status = 200 /\ last'.tok.sid # 0
        /\ Len(audit') = Len(audit) + 1)
       => LET rec == audit'[Len(audit')] IN
          /\ rec.event_type = "mfa_disabled"
          /\ rec.factor_id = last'.vf
          /\ rec.factor_type = factors[last'.vf].factor_type
          /\ rec.was_last_factor = (Verified(factors') = {})
          /\ rec.remaining_factors = Cardinality(Verified(factors'))
          /\ rec.session_aal = last'.tok.aal]_vars

\* C35: after an enrolment, a disable-mfa call or a direct unenroll, the
\* profile's mfa_factors_count is the number of verified factors the identity
\* provider holds for the account, and is never negative (stated for accounts
\* whose verified factors are all TOTP factors).
C35_Original ==
  (last.op \in {"verifyMFAEnrollment", "disable-mfa", "disableMFA"}
     /\ Verified(factors) = VerifiedTotp(factors))
    => /\ profile.mfa_factors_count = Cardinality(Verified(factors))
       /\ profile.mfa_factors_count >= 0

\* C36: a disable-mfa run that ends 500 because the unenroll call failed
\* leaves mfa_factors_count and last_mfa_change as they were, revokes no
\* session and writes no audit record.
C36_Original ==
  [][(last'.op = "disable-mfa" /\ last'.status = 500 /\ last'.fault = "unenroll"
        /\ FirstCall(last'.calls, "unenroll") > 0)
       => /\ profile' = profile
          /\ sessions' = sessions
          /\ audit' = audit]_vars

\* C37: the new-password form's updatePassword reports success only when the
\* identity provider took the new password, which is then the account's; a
\* refusal, the AAL2 requirement of a recovery session included, is reported
\* as a failure.
C37_Original ==
  [][last'.op = "newPasswordForm"
       => /\ "success" \in last'.flags
               => (last'.reason = "accepted" /\ password' = last'.newpw)
          /\ last'.reason \in {"error", "aal2_required"}
               => ("success" \notin last'.flags /\ last'.dest = "")]_vars

\* C38: the route guard, the login page's session check, isRecoverySession
\* and updatePassword classify a session as a recovery session exactly when
\* its method list has one entry and that entry is the recovery method.
C38_Original ==
  /\ (last.op = "guard" /\ last.cs.present)
       => (last.dest = "reset-password.html") = IsRecovery(last.cs)
  /\ (last.op \in {"checkExistingSession", "isRecoverySession", "newPasswordForm"}
        /\ last.resp # "")
       => (last.resp = "recovery") = IsRecovery(last.cs)

====
